---- MODULE Spec2Model ----
(***************************************************************************)
(* Model of sentieon_cli/command_strings.py: the builders that turn the    *)
(* shared keyword mapping (kwargs) into command strings.                   *)
(*                                                                         *)
(* Representation of Python values                                         *)
(*   A Python string is the sequence of its pieces; a piece is either one  *)
(*   blank " ", one tab "\t", one newline "\n", or a run of characters     *)
(*   that holds none of these.  Concatenation is \o, and Flat gives the    *)
(*   string itself, so two strings are equal iff their Flat is equal.      *)
(*   A value is a record [kind, s]: kind "str" (s the pieces), "int" (s    *)
(*   the decimal rendering), "none" (None) or "file" (an object with a     *)
(*   .name attribute whose pieces are s).                                  *)
(*   A dict is the sequence of its <<key, value>> items in insertion       *)
(*   order, with no key twice.                                             *)
(***************************************************************************)
EXTENDS Integers, Sequences, FiniteSets, TLC

VARIABLES
    kwargs,   \* the caller's Config dict, handed to every builder
    result,   \* the last finished call: function, arguments, dict it saw, outcome
    fs,       \* the file system
    frames    \* the frames of the concurrent cmd_bedtools_subtract calls

vars == <<kwargs, result, fs, frames>>

(***************************************************************************)
(* Bounds                                                                  *)
(***************************************************************************)
MaxMissing == 1
MaxRows == 2

(***************************************************************************)
(* Strings                                                                 *)
(***************************************************************************)
RECURSIVE Flat(_)
Flat(s) == IF s = <<>> THEN "" ELSE Head(s) \o Flat(Tail(s))

IsSpace(c) == c \in {" ", "\t", "\n"}

\* str.split() on whitespace as a shell does: the maximal blank-free runs,
\* adjacent pieces fused into one token.
RECURSIVE TokensFrom(_, _, _)
TokensFrom(s, cur, acc) ==
    IF s = <<>> THEN (IF cur = "" THEN acc ELSE Append(acc, cur))
    ELSE IF IsSpace(Head(s))
         THEN TokensFrom(Tail(s), "", IF cur = "" THEN acc ELSE Append(acc, cur))
         ELSE TokensFrom(Tail(s), cur \o Head(s), acc)

Tokens(s) == TokensFrom(s, "", <<>>)

\* sub in s: the pieces of sub occur consecutively in s
Contains(s, sub) ==
    \E i \in 1..(Len(s) - Len(sub) + 1) : SubSeq(s, i, i + Len(sub) - 1) = sub

StartsWith(s, pre) == Len(s) >= Len(pre) /\ SubSeq(s, 1, Len(pre)) = pre

EndsWith(s, suf) ==
    Len(s) >= Len(suf) /\ SubSeq(s, Len(s) - Len(suf) + 1, Len(s)) = suf

Count(s, c) == Cardinality({i \in 1..Len(s) : s[i] = c})

\* one blank, and words joined by single blanks
B == <<" ">>
RECURSIVE Sp(_)
Sp(ws) == IF Len(ws) <= 1 THEN ws ELSE <<Head(ws), " ">> \o Sp(Tail(ws))

(***************************************************************************)
(* Values                                                                  *)
(***************************************************************************)
None == [kind |-> "none", s |-> <<>>]
StrV(s) == [kind |-> "str", s |-> s]
IntV(s) == [kind |-> "int", s |-> s]
FileV(s) == [kind |-> "file", s |-> s]

\* bool(v)
Truthy(v) ==
    CASE v.kind = "none" -> FALSE
      [] v.kind = "str" -> v.s # <<>>
      [] v.kind = "int" -> v.s # <<"0">>
      [] OTHER -> TRUE

\* f"{v}": str(v)
Fmt(v) ==
    CASE v.kind = "none" -> <<"None">>
      [] v.kind = "file" ->
            <<"<_io.TextIOWrapper", " ", "name='">> \o v.s
                \o <<"'", " ", "mode='r'", " ", "encoding='utf-8'>">>
      [] OTHER -> v.s

\* hasattr(v, "name")
HasName(v) == v.kind = "file"

(***************************************************************************)
(* dict                                                                    *)
(***************************************************************************)
Keys(d) == {d[i][1] : i \in 1..Len(d)}
Has(d, k) == k \in Keys(d)
\* d[k], for k in d
Item(d, k) == d[CHOOSE i \in 1..Len(d) : d[i][1] = k][2]
\* d.get(k) and d.get(k, dflt)
GetOr(d, k, dflt) == IF Has(d, k) THEN Item(d, k) ELSE dflt
Get(d, k) == GetOr(d, k, None)
\* d[k] = v
SetItem(d, k, v) ==
    IF Has(d, k)
    THEN [i \in 1..Len(d) |-> IF d[i][1] = k THEN <<k, v>> ELSE d[i]]
    ELSE Append(d, <<k, v>>)

(***************************************************************************)
(* Outcome of a call: a returned string or a raised exception              *)
(***************************************************************************)
Ret(cmd) == [status |-> "ok", cmd |-> cmd]
Raise(exc) == [status |-> exc, cmd |-> <<>>]

\* name that hands back its argument whatever it is
name_as_is(path) == path

\* name(path)
name(path) == IF HasName(path) THEN StrV(path.s) ELSE path

\* cmd_sentieon_driver with the read-filter clause put before the sample input
cmd_sentieon_driver_filter_first(bed_key, skip_sample_input, kw) ==
    LET bed == IF bed_key # None /\ Get(kw, Flat(bed_key.s)) # None
               THEN B \o <<"--interval">> \o B \o Fmt(name(Item(kw, Flat(bed_key.s))))
               ELSE <<>>
        read_filter == IF Truthy(Get(kw, "read-filter"))
                       THEN B \o <<"--read_filter">> \o B \o Fmt(Item(kw, "read-filter"))
                       ELSE <<>>
    IN  IF ~Has(kw, "cores") \/ ~Has(kw, "reference") THEN Raise("KeyError")
        ELSE IF ~skip_sample_input /\ ~Has(kw, "sample_input") THEN Raise("KeyError")
        ELSE Ret(Sp(<<"sentieon", "driver", "-t">>) \o B \o Fmt(Item(kw, "cores"))
                 \o B \o <<"-r">> \o B \o Fmt(name(Item(kw, "reference"))) \o B
                 \o bed
                 \o read_filter
                 \o (IF skip_sample_input THEN <<>>
                     ELSE B \o <<"-i">> \o B \o Fmt(name(Item(kw, "sample_input")))))

\* cmd_sentieon_driver(bed_key, skip_sample_input, **kwargs)
cmd_sentieon_driver(bed_key, skip_sample_input, kw) ==
    LET bed == IF bed_key # None /\ Get(kw, Flat(bed_key.s)) # None
               THEN B \o <<"--interval">> \o B \o Fmt(name(Item(kw, Flat(bed_key.s))))
               ELSE <<>>
        read_filter == IF Truthy(Get(kw, "read-filter"))
                       THEN B \o <<"--read_filter">> \o B \o Fmt(Item(kw, "read-filter"))
                       ELSE <<>>
    IN  IF ~Has(kw, "cores") \/ ~Has(kw, "reference") THEN Raise("KeyError")
        ELSE IF ~skip_sample_input /\ ~Has(kw, "sample_input") THEN Raise("KeyError")
        ELSE Ret(Sp(<<"sentieon", "driver", "-t">>) \o B \o Fmt(Item(kw, "cores"))
                 \o B \o <<"-r">> \o B \o Fmt(name(Item(kw, "reference"))) \o B
                 \o bed
                 \o (IF skip_sample_input THEN <<>>
                     ELSE B \o <<"-i">> \o B \o Fmt(name(Item(kw, "sample_input"))))
                 \o read_filter)

\* f(**kwargs) for a function with the named parameters bed_key and
\* skip_sample_input: a mapping that holds one of them is a TypeError
CallDriver(bed_key, skip_sample_input, kw) ==
    IF Has(kw, "bed_key") \/ Has(kw, "skip_sample_input") THEN Raise("TypeError")
    ELSE cmd_sentieon_driver(bed_key, skip_sample_input, kw)

\* cmd_variant_phaser(vcf, phased_bed, phased_vcf, phased_ext, kwargs)
cmd_variant_phaser(vcf, phased_bed, phased_vcf, phased_ext, kw) ==
    LET d == CallDriver(None, FALSE, kw)
    IN  IF d.status # "ok" THEN d
        ELSE Ret(d.cmd
                 \o B \o Sp(<<"--algo", "VariantPhaser", "-v">>) \o B \o Fmt(vcf) \o B
                 \o <<"--max_depth">> \o B
                 \o Fmt(GetOr(kw, "phase_max_depth", IntV(<<"1000">>))) \o B
                 \o <<"--out_bed">> \o B \o Fmt(phased_bed) \o B
                 \o <<"--out_ext">> \o B \o Fmt(phased_ext) \o B
                 \o Fmt(phased_vcf) \o B)

\* the mapping cmd_repeat_model leaves behind in the caller's dict
cmd_repeat_model_kwargs(phased_bed, phased_ext, kw) ==
    LET kw1 == SetItem(kw, "phased_bed", phased_bed)
        d == CallDriver(StrV(<<"phased_bed">>), FALSE, kw1)
    IN  IF d.status # "ok" \/ ~Has(kw1, "tmp_base") THEN kw1
        ELSE SetItem(kw1, "repeat_model",
                     StrV(Fmt(Item(kw1, "tmp_base")) \o <<"/out_repeat.model">>))

\* cmd_repeat_model(phased_bed, phased_ext, kwargs): the outcome
cmd_repeat_model(phased_bed, phased_ext, kw) ==
    LET kw1 == SetItem(kw, "phased_bed", phased_bed)
        d == CallDriver(StrV(<<"phased_bed">>), FALSE, kw1)
        kw2 == cmd_repeat_model_kwargs(phased_bed, phased_ext, kw)
    IN  IF d.status # "ok" THEN d
        ELSE IF ~Has(kw1, "tmp_base") THEN Raise("KeyError")
        ELSE Ret(d.cmd
                 \o B \o <<"--read_filter">> \o B
                 \o <<"PhasedReadFilter,phased_vcf=">> \o Fmt(phased_ext)
                 \o <<",phase_select=tag">> \o B
                 \o Sp(<<"--algo", "RepeatModel", "--phased", "--min_map_qual", "1">>) \o B
                 \o Sp(<<"--min_group_count", "10000">>) \o B
                 \o Sp(<<"--read_flag_mask", "drop=supplementary",
                         "--repeat_extension", "5">>) \o B
                 \o Sp(<<"--max_repeat_unit_size", "2", "--min_repeat_count", "6">>) \o B
                 \o Item(kw2, "repeat_model").s)

\* cmd_model_apply(model, inp_vcf, out_vcf, kwargs)
cmd_model_apply(model, inp_vcf, out_vcf, kw) ==
    LET d == CallDriver(None, TRUE, kw)
    IN  IF d.status # "ok" THEN d
        ELSE Ret(d.cmd
                 \o Sp(<<"--algo", "DNAModelApply", "--model">>) \o B \o Fmt(model) \o B
                 \o <<"-v">> \o B \o Fmt(inp_vcf) \o B \o Fmt(out_vcf))

(***************************************************************************)
(* hap_patt % (n, infix): printf-style formatting with a 2-tuple.  The     *)
(* conversion specifiers "%d" and "%s" are pieces of their own.            *)
(***************************************************************************)
IsSpec(c) == c \in {"%d", "%s"}
Specs(p) == SelectSeq(p, IsSpec)

\* the formatting raises TypeError unless the pattern is a string with
\* exactly two specifiers, the second of which accepts a string
FormatOk(patt) ==
    /\ patt.kind = "str"
    /\ Len(Specs(patt.s)) = 2
    /\ Specs(patt.s)[2] = "%s"

RECURSIVE Subst(_, _)
Subst(p, args) ==
    IF p = <<>> THEN <<>>
    ELSE IF IsSpec(Head(p))
         THEN (IF Head(args) = "" THEN <<>> ELSE <<Head(args)>>)
                  \o Subst(Tail(p), Tail(args))
         ELSE <<Head(p)>> \o Subst(Tail(p), args)

\* the formatting with the infix left out
FormatWithoutInfix(patt, n, infix) == Subst(patt.s, <<n, "">>)

Format(patt, n, infix) == Subst(patt.s, <<n, infix>>)

\* cmd_pyexec_vcf_mod_haploid_patch(hap1_patch, hap2_patch, hap_patt, tech,
\*                                  phased_vcf, kwargs)
cmd_pyexec_vcf_mod_haploid_patch(hap1_patch, hap2_patch, hap_patt, tech, phased_vcf, kw) ==
    IF tech \notin {StrV(<<"HiFi">>), StrV(<<"ONT">>)} THEN Raise("AssertionError")
    ELSE IF ~Has(kw, "vcf_mod_py") \/ ~Has(kw, "cores") THEN Raise("KeyError")
    ELSE IF ~FormatOk(hap_patt) THEN Raise("TypeError")
    ELSE Ret(Sp(<<"sentieon", "pyexec">>) \o B \o Fmt(Item(kw, "vcf_mod_py")) \o B
             \o <<"-t">> \o B \o Fmt(Item(kw, "cores")) \o B
             \o <<"haploid_patch">> \o B
             \o <<"--patch1">> \o B \o Fmt(hap1_patch) \o B
             \o <<"--patch2">> \o B \o Fmt(hap2_patch)
             \o (IF tech = StrV(<<"HiFi">>)
                 THEN B \o <<"--hap1">> \o B \o Format(hap_patt, "1", "nohp_")
                      \o B \o <<"--hap2">> \o B \o Format(hap_patt, "2", "nohp_")
                 ELSE B \o <<"--phased">> \o B \o Fmt(phased_vcf))
             \o B \o <<"--hap1_hp">> \o B \o Format(hap_patt, "1", "")
             \o B \o <<"--hap2_hp">> \o B \o Format(hap_patt, "2", ""))

\* cmd_pyexec_vcf_mod_patch(out_vcf, vcf, vcf_hp, kwargs)
cmd_pyexec_vcf_mod_patch(out_vcf, vcf, vcf_hp, kw) ==
    IF ~Has(kw, "vcf_mod_py") \/ ~Has(kw, "cores") THEN Raise("KeyError")
    ELSE Ret(Sp(<<"sentieon", "pyexec">>) \o B \o Fmt(Item(kw, "vcf_mod_py")) \o B
             \o <<"-t">> \o B \o Fmt(Item(kw, "cores")) \o B
             \o Sp(<<"patch", "--vcf">>) \o B \o Fmt(vcf) \o B
             \o <<"--vcf_hp">> \o B \o Fmt(vcf_hp) \o B \o Fmt(out_vcf))

\* str.replace(".vcf.gz", ".g.vcf.gz"): every occurrence, left to right.
\* A path is cut into pieces so that ".vcf.gz" occurs in it only as a whole
\* piece, which makes the piecewise replacement the character-wise one.
RECURSIVE Replace(_, _, _)
Replace(s, old, new) ==
    IF s = <<>> THEN <<>>
    ELSE (IF Head(s) = old THEN new ELSE <<Head(s)>>) \o Replace(Tail(s), old, new)

\* cmd_pyexec_gvcf_combine(gvcf, out_vcf, kwargs)
cmd_pyexec_gvcf_combine(gvcf, out_vcf, kw) ==
    IF ~Has(kw, "gvcf_combine_py") \/ ~Has(kw, "cores") THEN Raise("KeyError")
    ELSE IF out_vcf.kind # "str" THEN Raise("AttributeError")
    ELSE Ret(Sp(<<"sentieon", "pyexec">>) \o B \o Fmt(Item(kw, "gvcf_combine_py")) \o B
             \o <<"-t">> \o B \o Fmt(Item(kw, "cores")) \o B
             \o Fmt(gvcf) \o B \o Fmt(out_vcf) \o B \o <<"-">>
             \o B \o Sp(<<"|", "sentieon", "util", "vcfconvert", "-">>) \o B
             \o Replace(out_vcf.s, ".vcf.gz", <<".g", ".vcf.gz">>))

\* cmd_pyexec_vcf_mod_merge(hap1_vcf, hap2_vcf, unphased_vcf, phased_vcf,
\*                          phased_bed, out_vcf, kwargs)
cmd_pyexec_vcf_mod_merge(hap1_vcf, hap2_vcf, unphased_vcf, phased_vcf, phased_bed, out_vcf, kw) ==
    IF ~Has(kw, "vcf_mod_py") \/ ~Has(kw, "cores") THEN Raise("KeyError")
    ELSE Ret(Sp(<<"sentieon", "pyexec">>) \o B \o Fmt(Item(kw, "vcf_mod_py")) \o B
             \o <<"-t">> \o B \o Fmt(Item(kw, "cores")) \o B
             \o Sp(<<"merge", "--hap1">>) \o B \o Fmt(hap1_vcf) \o B
             \o <<"--hap2">> \o B \o Fmt(hap2_vcf) \o B
             \o <<"--unphased">> \o B \o Fmt(unphased_vcf) \o B
             \o <<"--phased">> \o B \o Fmt(phased_vcf) \o B
             \o <<"--bed">> \o B \o Fmt(phased_bed) \o B \o Fmt(out_vcf))

\* cmd_algo_dnascope(model, out_vcf, kwargs, bed_key, gvcf)
cmd_algo_dnascope(model, out_vcf, kw, bed_key, gvcf) ==
    LET gvcf_str == IF Truthy(gvcf)
                    THEN B \o Sp(<<"--algo", "DNAscope", "--model">>) \o B
                         \o Fmt(Get(kw, "model_bundle")) \o <<"/gvcf_model">>
                         \o B \o Sp(<<"--emit_mode", "gvcf">>) \o B \o Fmt(gvcf) \o B
                    ELSE <<>>
        dbsnp == IF Truthy(Get(kw, "dbsnp"))
                 THEN B \o <<"--dbsnp">> \o B \o Item(kw, "dbsnp").s \o B
                 ELSE <<>>
        cmd == B \o gvcf_str \o Sp(<<"--algo", "DNAscope">>) \o B \o dbsnp \o B
               \o <<"--model">> \o B \o Fmt(model) \o B \o Fmt(out_vcf)
        d == CallDriver(bed_key, FALSE, kw)
    IN  IF Truthy(gvcf) /\ ~Has(kw, "model_bundle") THEN Raise("KeyError")
        ELSE IF Truthy(Get(kw, "dbsnp")) /\ ~HasName(Item(kw, "dbsnp"))
             THEN Raise("AttributeError")
        ELSE IF d.status # "ok" THEN d
        ELSE Ret(d.cmd \o cmd)

\* cmd_dnascope_hp(model, repeat_model, hp_vcf, kwargs)
cmd_dnascope_hp(model, repeat_model, hp_vcf, kw) ==
    Ret(Sp(<<"--algo", "DNAscopeHP">>) \o B
        \o (IF Truthy(Get(kw, "dbsnp"))
            THEN <<"--dbsnp">> \o B \o Fmt(name(Item(kw, "dbsnp"))) \o B
            ELSE <<>>)
        \o (IF model # None THEN <<"--model">> \o B \o Fmt(model) \o B ELSE <<>>)
        \o <<"--pcr_indel_model">> \o B \o Fmt(repeat_model) \o B
        \o Sp(<<"--min_repeat_count", "6">>) \o B
        \o Fmt(hp_vcf))

(***************************************************************************)
(* The file system: a function from the names of the files that exist to   *)
(* [data, writers]: the file's lines and the number of handles open for    *)
(* writing.  A write handle has an offset pos, counted in lines: the lines *)
(* of the model are equally wide, so an offset in lines is one in bytes.   *)
(***************************************************************************)
\* str.strip(): drop leading and trailing whitespace
RECURSIVE LStrip(_)
LStrip(s) == IF s # <<>> /\ IsSpace(Head(s)) THEN LStrip(Tail(s)) ELSE s
RECURSIVE RStrip(_)
RStrip(s) ==
    IF s # <<>> /\ IsSpace(s[Len(s)]) THEN RStrip(SubSeq(s, 1, Len(s) - 1)) ELSE s
Strip(s) == RStrip(LStrip(s))

\* str.split("\t"): the fields between tabs, empty fields kept
RECURSIVE SplitFrom(_, _, _)
SplitFrom(s, cur, acc) ==
    IF s = <<>> THEN Append(acc, cur)
    ELSE IF Head(s) = "\t" THEN SplitFrom(Tail(s), <<>>, Append(acc, cur))
         ELSE SplitFrom(Tail(s), Append(cur, Head(s)), acc)
SplitTab(s) == SplitFrom(s, <<>>, <<>>)

\* the bytes a truncation by another handle leaves below a later write
Hole == <<"\\0">>

\* open(path, "wt"): create or truncate
OpenWrite(f, path) ==
    [q \in DOMAIN f \cup {path} |->
        IF q = path
        THEN [data |-> <<>>,
              writers |-> (IF path \in DOMAIN f THEN f[path].writers ELSE 0) + 1]
        ELSE f[q]]

\* write of one line at offset pos
WriteAt(data, pos, row) ==
    [i \in 1..(IF pos + 1 > Len(data) THEN pos + 1 ELSE Len(data)) |->
        IF i = pos + 1 THEN row ELSE IF i <= Len(data) THEN data[i] ELSE Hole]

FsWrite(f, path, pos, row) ==
    [f EXCEPT ![path] = [@ EXCEPT !.data = WriteAt(@, pos, row)]]

\* leaving the with block
FsClose(f, path) == [f EXCEPT ![path] = [@ EXCEPT !.writers = @ - 1]]

\* the row with the third index column in place of the second
BedRowThirdColumn(toks) == toks[1] \o <<"\t", "0", "\t">> \o toks[3] \o <<"\n">>

\* f"{toks[0]}\t0\t{toks[1]}\n"
BedRow(toks) == toks[1] \o <<"\t", "0", "\t">> \o toks[2] \o <<"\n">>

(***************************************************************************)
(* cmd_bedtools_subtract(regions_bed, phased_bed, unphased_bed, **kwargs)  *)
(* as the steps of one call.  c is the call's frame: its position pc, its  *)
(* arguments, the open handle (fname, pos), the lines still to read and    *)
(* the outcome ret.                                                        *)
(***************************************************************************)
Frame(regions_bed, phased_bed, unphased_bed, kw) ==
    [pc |-> "start", regions_bed |-> regions_bed, phased_bed |-> phased_bed,
     unphased_bed |-> unphased_bed, kw |-> kw, fname |-> <<>>, pos |-> 0,
     lines |-> <<>>, ret |-> Raise("none")]

Idle == [Frame(None, None, None, <<>>) EXCEPT !.pc = "idle"]

\* "if regions_bed is None: with open(f"{kwargs['tmp_base']}_reference.bed", "wt")"
StepStart(c, f) ==
    IF c.regions_bed # None THEN <<[c EXCEPT !.pc = "cmd"], f>>
    ELSE IF ~Has(c.kw, "tmp_base")
         THEN <<[c EXCEPT !.pc = "done", !.ret = Raise("KeyError")], f>>
    ELSE LET path == Fmt(Item(c.kw, "tmp_base")) \o <<"_reference.bed">>
         IN  <<[c EXCEPT !.pc = "openfai", !.fname = path], OpenWrite(f, Flat(path))>>

\* "open(name(kwargs["reference"]) + ".fai")"; an exception leaves the with
\* block, which closes the file
StepOpenFai(c, f) ==
    LET fail(exc) == <<[c EXCEPT !.pc = "done", !.ret = Raise(exc)],
                       FsClose(f, Flat(c.fname))>>
        ref == name(Item(c.kw, "reference"))
        fai == Flat(ref.s \o <<".fai">>)
    IN  IF ~Has(c.kw, "reference") THEN fail("KeyError")
        ELSE IF ref.kind # "str" THEN fail("TypeError")
        ELSE IF fai \notin DOMAIN f THEN fail("FileNotFoundError")
        ELSE <<[c EXCEPT !.pc = "loop", !.lines = f[fai].data], f>>

\* one iteration of the for loop, or its end
StepLoop(c, f) ==
    IF c.lines = <<>> THEN <<[c EXCEPT !.pc = "close"], f>>
    ELSE LET toks == SplitTab(Strip(Head(c.lines)))
         IN  IF Len(toks) < 2
             THEN <<[c EXCEPT !.pc = "done", !.ret = Raise("IndexError")],
                    FsClose(f, Flat(c.fname))>>
             ELSE <<[c EXCEPT !.lines = Tail(@), !.pos = @ + 1],
                    FsWrite(f, Flat(c.fname), c.pos, BedRow(toks))>>

\* "regions_bed = f.name" and the end of the with block
StepClose(c, f) ==
    <<[c EXCEPT !.pc = "cmd", !.regions_bed = StrV(c.fname)], FsClose(f, Flat(c.fname))>>

\* the two lines that build the command
StepCmd(c, f) ==
    <<[c EXCEPT !.pc = "done",
                !.ret = Ret(Sp(<<"bedtools", "subtract", "-a">>) \o B
                            \o Fmt(name(c.regions_bed)) \o B
                            \o <<"-b">> \o B \o Fmt(c.phased_bed) \o B
                            \o <<">">> \o B \o Fmt(c.unphased_bed))], f>>

Step(c, f) ==
    CASE c.pc = "start" -> StepStart(c, f)
      [] c.pc = "openfai" -> StepOpenFai(c, f)
      [] c.pc = "loop" -> StepLoop(c, f)
      [] c.pc = "close" -> StepClose(c, f)
      [] c.pc = "cmd" -> StepCmd(c, f)

\* a call that runs alone, from its first step to its return
RECURSIVE RunCall(_, _)
RunCall(c, f) == IF c.pc = "done" THEN <<c, f>> ELSE RunCall(Step(c, f)[1], Step(c, f)[2])

\* cmd_bedtools_subtract(regions_bed, phased_bed, unphased_bed, **kwargs): a
\* mapping that holds the name of one of the three parameters is a TypeError
cmd_bedtools_subtract(regions_bed, phased_bed, unphased_bed, kw, f) ==
    IF Keys(kw) \cap {"regions_bed", "phased_bed", "unphased_bed"} # {}
    THEN <<[Frame(regions_bed, phased_bed, unphased_bed, kw)
               EXCEPT !.pc = "done", !.ret = Raise("TypeError")], f>>
    ELSE RunCall(Frame(regions_bed, phased_bed, unphased_bed, kw), f)

(***************************************************************************)
(* Inputs                                                                  *)
(***************************************************************************)
\* a path-like value: the plain path or a handle that carries it as .name
PathLike(asFile, s) == IF asFile THEN FileV(s) ELSE StrV(s)

FullConfig(asFile) ==
    << <<"cores", IntV(<<"4">>)>>,
       <<"reference", PathLike(asFile, <<"ref.fasta">>)>>,
       <<"sample_input", PathLike(asFile, <<"sample.bam">>)>>,
       <<"regions", PathLike(asFile, <<"roi.bed">>)>>,
       <<"read-filter", StrV(<<"PhasedReadFilter,phased_vcf=p", ".vcf.gz">>)>>,
       <<"dbsnp", PathLike(asFile, <<"dbsnp", ".vcf.gz">>)>>,
       <<"model_bundle", StrV(<<"bundle">>)>>,
       <<"tmp_base", StrV(<<"tmp/run">>)>>,
       <<"vcf_mod_py", StrV(<<"vcf_mod.py">>)>>,
       <<"gvcf_combine_py", StrV(<<"gvcf_combine.py">>)>> >>

ConfigKeys == Keys(FullConfig(FALSE))

\* the items of d without the keys in gone, and with None for the keys in nulled
Without(d, gone, nulled) ==
    LET kept(it) == it[1] \notin gone
        e == SelectSeq(d, kept)
    IN  [i \in 1..Len(e) |-> IF e[i][1] \in nulled THEN <<e[i][1], None>> ELSE e[i]]

Reverse(d) == [i \in 1..Len(d) |-> d[Len(d) + 1 - i]]

\* the Configs a caller hands in: at most MaxMissing keys left out or None,
\* the keys inserted in either order
FewKeys == {K \in SUBSET ConfigKeys : Cardinality(K) <= MaxMissing}

Configs ==
    {IF q[2] THEN Reverse(Without(FullConfig(q[1]), q[3], q[4]))
             ELSE Without(FullConfig(q[1]), q[3], q[4]) :
        q \in {r \in BOOLEAN \X BOOLEAN \X FewKeys \X FewKeys :
                  /\ r[3] \cap r[4] = {}
                  /\ Cardinality(r[3] \cup r[4]) <= MaxMissing}}

\* reference index lines: name, length and further columns, tab separated
FaiLine == {<<"chr1", "\t", "100", "\t", "6", "\t", "60", "\t", "61", "\n">>,
            <<"chr2", "\t", "250", "\t", "112", "\t", "60", "\t", "61", "\n">>}

RECURSIVE SeqsUpTo(_, _)
SeqsUpTo(S, n) ==
    IF n = 0 THEN {<<>>}
    ELSE SeqsUpTo(S, n - 1)
         \cup {Append(q, x) : <<q, x>> \in {r \in SeqsUpTo(S, n - 1) : Len(r) = n - 1} \X S}

FaiContents == SeqsUpTo(FaiLine, MaxRows)

NewFile(rows) == [data |-> rows, writers |-> 0]

Threads == {1, 2}

NoResult == [fn |-> "none", args |-> <<>>, kw |-> <<>>, status |-> "none", cmd |-> <<>>]

Done(fn, args, kw, out) ==
    [fn |-> fn, args |-> args, kw |-> kw, status |-> out.status, cmd |-> out.cmd]

\* artifact names handed in by the caller; None is a name the caller lacks
Vcf == StrV(<<"in", ".vcf.gz">>)
PhasedBed == StrV(<<"phased.bed">>)
PhasedVcf == StrV(<<"ph", ".vcf.gz">>)
PhasedExt == StrV(<<"ext">>)
Model == StrV(<<"bundle/model">>)
OutVcfs == {StrV(<<"out", ".vcf.gz">>),
            StrV(<<"out", ".vcf">>),
            StrV(<<"run", ".vcf.gz", ".d/", "out", ".vcf.gz">>),
            None}
HapPatts == {StrV(<<"out_hap", "%d", "_", "%s", "tmp", ".vcf.gz">>),
             StrV(<<"hap", "%s", "/", "%s", "tmp.vcf">>),
             None}
Techs == {StrV(<<"HiFi">>), StrV(<<"ONT">>), StrV(<<"Illumina">>), None}
BedKeys == {None, StrV(<<"regions">>), StrV(<<"phased_bed">>)}

(***************************************************************************)
(* Initial states                                                          *)
(***************************************************************************)
Init ==
    /\ kwargs \in Configs
    /\ result = NoResult
    /\ fs = [q \in {"ref.fasta.fai"} |-> NewFile(<<CHOOSE l \in FaiLine : l[1] = "chr1">>)]
    /\ frames = [t \in Threads |-> Idle]

(***************************************************************************)
(* The calls the pipeline makes, each with the caller's dict.  A call that *)
(* takes **kwargs works on a copy; one that takes kwargs works on the dict *)
(* itself.                                                                 *)
(***************************************************************************)
SentieonDriver ==
    \E bed_key \in BedKeys, skip \in BOOLEAN :
        /\ result' = Done("cmd_sentieon_driver", <<bed_key, skip>>, kwargs,
                          CallDriver(bed_key, skip, kwargs))
        /\ UNCHANGED <<kwargs, fs, frames>>

VariantPhaser ==
    \E vcf \in {Vcf, None} :
        /\ result' = Done("cmd_variant_phaser", <<vcf, PhasedBed, PhasedVcf, PhasedExt>>,
                          kwargs,
                          cmd_variant_phaser(vcf, PhasedBed, PhasedVcf, PhasedExt, kwargs))
        /\ UNCHANGED <<kwargs, fs, frames>>

BedtoolsSubtract ==
    \E regions_bed \in {None, StrV(<<"roi.bed">>), FileV(<<"roi.bed">>)} :
        LET r == cmd_bedtools_subtract(regions_bed, PhasedBed, StrV(<<"unphased.bed">>),
                                       kwargs, fs)
        IN  /\ result' = Done("cmd_bedtools_subtract",
                              <<regions_bed, PhasedBed, StrV(<<"unphased.bed">>)>>,
                              kwargs, r[1].ret)
            /\ fs' = r[2]
            /\ UNCHANGED <<kwargs, frames>>

RepeatModel ==
    \E phased_bed \in {PhasedBed, None} :
        /\ result' = Done("cmd_repeat_model", <<phased_bed, PhasedExt>>, kwargs,
                          cmd_repeat_model(phased_bed, PhasedExt, kwargs))
        /\ kwargs' = cmd_repeat_model_kwargs(phased_bed, PhasedExt, kwargs)
        /\ UNCHANGED <<fs, frames>>

ModelApply ==
    \E out_vcf \in {StrV(<<"out", ".vcf.gz">>), None} :
        /\ result' = Done("cmd_model_apply", <<Model, Vcf, out_vcf>>, kwargs,
                          cmd_model_apply(Model, Vcf, out_vcf, kwargs))
        /\ UNCHANGED <<kwargs, fs, frames>>

HaploidPatch ==
    \E hap_patt \in HapPatts, tech \in Techs, phased_vcf \in {PhasedVcf, None} :
        /\ result' = Done("cmd_pyexec_vcf_mod_haploid_patch",
                          <<StrV(<<"h1", ".vcf.gz">>), StrV(<<"h2", ".vcf.gz">>),
                            hap_patt, tech, phased_vcf>>,
                          kwargs,
                          cmd_pyexec_vcf_mod_haploid_patch(
                              StrV(<<"h1", ".vcf.gz">>), StrV(<<"h2", ".vcf.gz">>),
                              hap_patt, tech, phased_vcf, kwargs))
        /\ UNCHANGED <<kwargs, fs, frames>>

Patch ==
    \E vcf_hp \in {StrV(<<"hp", ".vcf.gz">>), None} :
        /\ result' = Done("cmd_pyexec_vcf_mod_patch",
                          <<StrV(<<"out", ".vcf.gz">>), Vcf, vcf_hp>>, kwargs,
                          cmd_pyexec_vcf_mod_patch(StrV(<<"out", ".vcf.gz">>), Vcf, vcf_hp,
                                                   kwargs))
        /\ UNCHANGED <<kwargs, fs, frames>>

GvcfCombine ==
    \E out_vcf \in OutVcfs :
        /\ result' = Done("cmd_pyexec_gvcf_combine",
                          <<StrV(<<"in", ".g", ".vcf.gz">>), out_vcf>>, kwargs,
                          cmd_pyexec_gvcf_combine(StrV(<<"in", ".g", ".vcf.gz">>), out_vcf,
                                                  kwargs))
        /\ UNCHANGED <<kwargs, fs, frames>>

Merge ==
    \E phased_vcf \in {PhasedVcf, None}, phased_bed \in {PhasedBed, None} :
        LET args == <<StrV(<<"h1", ".vcf.gz">>), StrV(<<"h2", ".vcf.gz">>),
                      StrV(<<"unphased", ".vcf.gz">>), phased_vcf, phased_bed,
                      StrV(<<"out", ".vcf.gz">>)>>
        IN  /\ result' = Done("cmd_pyexec_vcf_mod_merge", args, kwargs,
                              cmd_pyexec_vcf_mod_merge(args[1], args[2], args[3], args[4],
                                                       args[5], args[6], kwargs))
            /\ UNCHANGED <<kwargs, fs, frames>>

AlgoDnascope ==
    \E bed_key \in BedKeys, gvcf \in {None, StrV(<<"out", ".g", ".vcf.gz">>)} :
        /\ result' = Done("cmd_algo_dnascope",
                          <<Model, StrV(<<"out", ".vcf.gz">>), bed_key, gvcf>>, kwargs,
                          cmd_algo_dnascope(Model, StrV(<<"out", ".vcf.gz">>), kwargs,
                                            bed_key, gvcf))
        /\ UNCHANGED <<kwargs, fs, frames>>

DnascopeHp ==
    \E model \in {Model, None}, hp_vcf \in {StrV(<<"hp", ".vcf.gz">>)} :
        /\ result' = Done("cmd_dnascope_hp",
                          <<model, StrV(<<"repeat_model">>), hp_vcf>>, kwargs,
                          cmd_dnascope_hp(model, StrV(<<"repeat_model">>), hp_vcf, kwargs))
        /\ UNCHANGED <<kwargs, fs, frames>>

Next ==
    \/ SentieonDriver
    \/ VariantPhaser
    \/ BedtoolsSubtract
    \/ RepeatModel
    \/ ModelApply
    \/ HaploidPatch
    \/ Patch
    \/ GvcfCombine
    \/ Merge
    \/ AlgoDnascope
    \/ DnascopeHp

Spec == Init /\ [][Next]_vars

(***************************************************************************)
(* Specifications of single builders: pure functions of their arguments    *)
(* and the dict, applied to every input of the bounded sets.               *)
(***************************************************************************)
SpecDriver == Init /\ [][SentieonDriver]_vars
SpecHaploid == Init /\ [][HaploidPatch]_vars
SpecHp == Init /\ [][DnascopeHp]_vars

(***************************************************************************)
(* cmd_bedtools_subtract on every reference index of the bounded set       *)
(***************************************************************************)
InitFs ==
    /\ kwargs \in Configs
    /\ result = NoResult
    /\ fs \in {[q \in {"ref.fasta.fai"} |-> NewFile(rows)] : rows \in FaiContents}
    /\ frames = [t \in Threads |-> Idle]

SpecFs == InitFs /\ [][BedtoolsSubtract]_vars

(***************************************************************************)
(* Concurrent calls of cmd_bedtools_subtract: each thread runs one call    *)
(* on its own copy of the keyword arguments, one step at a time.           *)
(***************************************************************************)
ConcConfig(ref, tmp) ==
    << <<"cores", IntV(<<"4">>)>>, <<"reference", StrV(<<ref>>)>>,
       <<"tmp_base", StrV(<<tmp>>)>> >>

InitConc ==
    /\ kwargs = FullConfig(FALSE)
    /\ result = NoResult
    /\ fs \in {[q \in {"ref.fasta.fai", "alt.fasta.fai"} |->
                   NewFile(IF q = "ref.fasta.fai" THEN rows
                           ELSE <<CHOOSE l \in FaiLine : l[1] = "chr2">>)] :
               rows \in FaiContents}
    /\ frames = [t \in Threads |-> Idle]

Call(t) ==
    /\ frames[t].pc = "idle"
    /\ \E ref \in {"ref.fasta", "alt.fasta"}, tmp \in {"tmp/run", "tmp/other"},
          regions_bed \in {None, StrV(<<"roi.bed">>)} :
            frames' = [frames EXCEPT ![t] =
                Frame(regions_bed, PhasedBed, StrV(<<"unphased.bed">>),
                      ConcConfig(ref, tmp))]
    /\ UNCHANGED <<kwargs, result, fs>>

\* the with statement opens (creates or truncates) the region file
Open(t) ==
    /\ frames[t].pc = "start"
    /\ frames' = [frames EXCEPT ![t] = StepStart(frames[t], fs)[1]]
    /\ fs' = StepStart(frames[t], fs)[2]
    /\ UNCHANGED <<kwargs, result>>

\* the reference index is opened for reading
OpenFai(t) ==
    /\ frames[t].pc = "openfai"
    /\ frames' = [frames EXCEPT ![t] = StepOpenFai(frames[t], fs)[1]]
    /\ fs' = StepOpenFai(frames[t], fs)[2]
    /\ UNCHANGED <<kwargs, result>>

\* one row is written, or the loop ends
WriteRow(t) ==
    /\ frames[t].pc = "loop"
    /\ frames' = [frames EXCEPT ![t] = StepLoop(frames[t], fs)[1]]
    /\ fs' = StepLoop(frames[t], fs)[2]
    /\ UNCHANGED <<kwargs, result>>

\* the with block ends and closes the region file
Close(t) ==
    /\ frames[t].pc = "close"
    /\ frames' = [frames EXCEPT ![t] = StepClose(frames[t], fs)[1]]
    /\ fs' = StepClose(frames[t], fs)[2]
    /\ UNCHANGED <<kwargs, result>>

\* the command is built and returned
Return(t) ==
    /\ frames[t].pc = "cmd"
    /\ frames' = [frames EXCEPT ![t] = StepCmd(frames[t], fs)[1]]
    /\ fs' = StepCmd(frames[t], fs)[2]
    /\ UNCHANGED <<kwargs, result>>

NextConc ==
    \E t \in Threads :
        \/ Call(t)
        \/ Open(t)
        \/ OpenFai(t)
        \/ WriteRow(t)
        \/ Close(t)
        \/ Return(t)

SpecConc == InitConc /\ [][NextConc]_vars

(***************************************************************************)
(* Properties                                                              *)
(***************************************************************************)
\* the dict as a set of items: what it holds, whatever the insertion order
Items(d) == {d[i] : i \in 1..Len(d)}
Holds(d, k) == \E it \in Items(d) : it[1] = k /\ it[2] # None
ValueOf(d, k) == (CHOOSE it \in Items(d) : it[1] = k)[2]
\* a path-like value resolves to its name if it has one, else to itself
Resolved(v) == v.s

DriverPrefix(kw) ==
    Sp(<<"sentieon", "driver", "-t">>) \o B \o ValueOf(kw, "cores").s \o B
    \o <<"-r">> \o B \o Resolved(ValueOf(kw, "reference")) \o B

IntervalClause(bed_key, kw) ==
    IF bed_key # None /\ Holds(kw, Flat(bed_key.s))
    THEN B \o <<"--interval">> \o B \o Resolved(ValueOf(kw, Flat(bed_key.s)))
    ELSE <<>>

InputClause(skip, kw) ==
    IF skip THEN <<>> ELSE B \o <<"-i">> \o B \o Resolved(ValueOf(kw, "sample_input"))

ReadFilterClause(kw) ==
    IF Holds(kw, "read-filter")
    THEN B \o <<"--read_filter">> \o B \o ValueOf(kw, "read-filter").s
    ELSE <<>>

\* C1: for a Config that holds cores, reference and (unless skipped)
\* sample_input, cmd_sentieon_driver returns the thread/reference segment, then
\* the --interval clause iff bed_key is given and Config[bed_key] is
\* present, then the -i clause iff sample input is not skipped, then the
\* --read_filter clause iff a read-filter is present; an absent clause adds
\* no character, and the keys' insertion order does not change the result.
DriverClauseOrder ==
    (/\ result.fn = "cmd_sentieon_driver"
     /\ Holds(result.kw, "cores")
     /\ Holds(result.kw, "reference")
     /\ (result.args[2] \/ Holds(result.kw, "sample_input")))
    => /\ result.status = "ok"
       /\ Flat(result.cmd) =
             Flat(DriverPrefix(result.kw)
                  \o IntervalClause(result.args[1], result.kw)
                  \o InputClause(result.args[2], result.kw)
                  \o ReadFilterClause(result.kw))
       /\ CallDriver(result.args[1], result.args[2], Reverse(result.kw)).cmd = result.cmd

\* C1 witness: a driver call on a dict whose keys were inserted in reverse,
\* with all three optional clauses in the result
DriverAllClauses ==
    /\ result.fn = "cmd_sentieon_driver"
    /\ result.status = "ok"
    /\ result.kw[1][1] = "gvcf_combine_py"
    /\ result.kw[Len(result.kw)][1] = "cores"
    /\ result.args = <<StrV(<<"regions">>), FALSE>>
    /\ Contains(result.cmd, <<"--interval">>)
    /\ Contains(result.cmd, <<"-i">>)
    /\ Contains(result.cmd, <<"--read_filter">>)

\* the tokens of s hold the flag directly followed by the value
HasClause(s, flag, value) ==
    \E i \in 1..(Len(Tokens(s)) - 1) : Tokens(s)[i] = flag /\ Tokens(s)[i + 1] = value

HasFlag(s, flag) == \E i \in 1..Len(Tokens(s)) : Tokens(s)[i] = flag

LastTokens(s, n) == SubSeq(Tokens(s), Len(Tokens(s)) - n + 1, Len(Tokens(s)))

DoctestPatt == StrV(<<"out_hap", "%d", "_", "%s", "tmp", ".vcf.gz">>)

\* C3: cmd_pyexec_vcf_mod_haploid_patch with tech "HiFi" has the --hap1 and
\* --hap2 clauses built from the pattern with the "nohp_" infix and no
\* --phased clause; with tech "ONT" it has no --hap1/--hap2 clause and has
\* --phased <phased_vcf>; both end with the --hap1_hp and --hap2_hp clauses
\* built with an empty infix; any other tag raises and returns no string.
HaploidPatchBranches ==
    result.fn = "cmd_pyexec_vcf_mod_haploid_patch" =>
        LET patt == result.args[3]
            tech == result.args[4]
            phased_vcf == result.args[5]
        IN  /\ tech \notin {StrV(<<"HiFi">>), StrV(<<"ONT">>)}
                  => result.status = "AssertionError" /\ result.cmd = <<>>
            /\ (/\ tech \in {StrV(<<"HiFi">>), StrV(<<"ONT">>)}
                /\ {"vcf_mod_py", "cores"} \subseteq Keys(result.kw)
                /\ FormatOk(patt))
                  => result.status = "ok"
            /\ (result.status = "ok" /\ tech = StrV(<<"HiFi">>))
                  => /\ HasClause(result.cmd, "--hap1", Flat(Format(patt, "1", "nohp_")))
                     /\ HasClause(result.cmd, "--hap2", Flat(Format(patt, "2", "nohp_")))
                     /\ patt = DoctestPatt
                           => HasClause(result.cmd, "--hap1", "out_hap1_nohp_tmp.vcf.gz")
                     /\ ~HasFlag(result.cmd, "--phased")
            /\ (result.status = "ok" /\ tech = StrV(<<"ONT">>))
                  => /\ ~HasFlag(result.cmd, "--hap1")
                     /\ ~HasFlag(result.cmd, "--hap2")
                     /\ HasClause(result.cmd, "--phased", Flat(Fmt(phased_vcf)))
            /\ result.status = "ok"
                  => /\ LastTokens(result.cmd, 4) =
                            <<"--hap1_hp", Flat(Format(patt, "1", "")),
                              "--hap2_hp", Flat(Format(patt, "2", ""))>>
                     /\ patt = DoctestPatt
                           => LastTokens(result.cmd, 1) = <<"out_hap2_tmp.vcf.gz">>

\* C3 witness: an "ONT" call returned a string with --phased and the two
\* final clauses, built from the doctest's pattern
HaploidPatchONT ==
    /\ result.fn = "cmd_pyexec_vcf_mod_haploid_patch"
    /\ result.args[3] = DoctestPatt
    /\ result.args[4] = StrV(<<"ONT">>)
    /\ result.status = "ok"
    /\ HasFlag(result.cmd, "--phased")
    /\ HasFlag(result.cmd, "--hap1_hp")

\* C8: cmd_dnascope_hp returns a fragment that does not start with a driver
\* invocation: --algo DNAscopeHP, then --dbsnp <resolved dbsnp> iff the
\* Config has a dbsnp, then --model <model> iff model is not None, then
\* --pcr_indel_model <repeat_model> --min_repeat_count 6 and the output path
\* last; with model None there is no --model and the other clauses stay.
DnascopeHpFragment ==
    result.fn = "cmd_dnascope_hp" =>
        LET model == result.args[1]
            dbsnp == IF Holds(result.kw, "dbsnp")
                     THEN <<"--dbsnp", Flat(Resolved(ValueOf(result.kw, "dbsnp")))>>
                     ELSE <<>>
        IN  /\ result.status = "ok"
            /\ Tokens(result.cmd)[1] # "sentieon"
            /\ Tokens(result.cmd) =
                   <<"--algo", "DNAscopeHP">> \o dbsnp
                   \o (IF model # None THEN <<"--model", Flat(model.s)>> ELSE <<>>)
                   \o <<"--pcr_indel_model", Flat(result.args[2].s),
                        "--min_repeat_count", "6", Flat(result.args[3].s)>>
            /\ model = None
                  => /\ ~Contains(result.cmd, <<"--model">>)
                     /\ Holds(result.kw, "dbsnp") => HasFlag(result.cmd, "--dbsnp")
                     /\ HasFlag(result.cmd, "--pcr_indel_model")

\* C8 witness: a call with model None on a Config that has a dbsnp
DnascopeHpNoModel ==
    /\ result.fn = "cmd_dnascope_hp"
    /\ result.args[1] = None
    /\ Holds(result.kw, "dbsnp")
    /\ result.status = "ok"
    /\ HasFlag(result.cmd, "--dbsnp")

\* C2: no builder call changes the Config: the dict holds the same items
\* after the call as before it.
ConfigReadOnly == [][kwargs' = kwargs]_vars

\* a required input of the last call is missing: a Config key it reads is
\* absent, or an artifact name it consumes is None
RequiredKeys(r) ==
    CASE r.fn \in {"cmd_variant_phaser", "cmd_algo_dnascope"} ->
             {"cores", "reference", "sample_input"}
      [] r.fn = "cmd_sentieon_driver" ->
             {"cores", "reference"} \cup (IF r.args[2] THEN {} ELSE {"sample_input"})
      [] r.fn = "cmd_repeat_model" -> {"cores", "reference", "sample_input", "tmp_base"}
      [] r.fn = "cmd_model_apply" -> {"cores", "reference"}
      [] r.fn \in {"cmd_pyexec_vcf_mod_haploid_patch", "cmd_pyexec_vcf_mod_patch",
                   "cmd_pyexec_vcf_mod_merge"} -> {"vcf_mod_py", "cores"}
      [] r.fn = "cmd_pyexec_gvcf_combine" -> {"gvcf_combine_py", "cores"}
      [] r.fn = "cmd_bedtools_subtract" ->
             IF r.args[1] = None THEN {"tmp_base", "reference"} ELSE {}
      [] OTHER -> {}

RequiredArtifactMissing(r) ==
    \/ r.fn = "cmd_variant_phaser" /\ r.args[1] = None
    \/ /\ r.fn = "cmd_pyexec_vcf_mod_haploid_patch"
       /\ r.args[4] = StrV(<<"ONT">>)
       /\ r.args[5] = None
    \/ r.fn = "cmd_pyexec_vcf_mod_merge" /\ (r.args[4] = None \/ r.args[5] = None)

\* C4: a builder called without an input it requires raises and returns no
\* string.
MissingInputFails ==
    (\/ ~(RequiredKeys(result) \subseteq Keys(result.kw))
     \/ RequiredArtifactMissing(result))
    => result.status \notin {"ok", "none"} /\ result.cmd = <<>>

\* the path with its suffix ".vcf.gz" replaced by ".g.vcf.gz"
GvcfPath(s) ==
    IF s # <<>> /\ s[Len(s)] = ".vcf.gz"
    THEN SubSeq(s, 1, Len(s) - 1) \o <<".g", ".vcf.gz">>
    ELSE s

\* C7: the string cmd_pyexec_gvcf_combine returns has exactly one pipe, and
\* the conversion step writes the output VCF path with its suffix .vcf.gz
\* replaced by .g.vcf.gz, a path other than the output VCF path.
GvcfCombineSuffix ==
    (result.fn = "cmd_pyexec_gvcf_combine" /\ result.status = "ok") =>
        /\ Count(Tokens(result.cmd), "|") = 1
        /\ Count(result.cmd, "|") = 1
        /\ LastTokens(result.cmd, 1) = <<Flat(GvcfPath(result.args[2].s))>>
        /\ LastTokens(result.cmd, 1) # <<Flat(result.args[2].s)>>

\* C9: for a Config with a dbsnp, a plain path or an object with a name,
\* cmd_algo_dnascope returns a command with --dbsnp <resolved path>, the path
\* cmd_dnascope_hp emits for that Config.
DnascopeDbsnpResolved ==
    (/\ result.fn = "cmd_algo_dnascope"
     /\ Holds(result.kw, "dbsnp")
     /\ RequiredKeys(result) \subseteq Keys(result.kw)
     /\ (result.args[4] # None => Has(result.kw, "model_bundle")))
    => /\ result.status = "ok"
       /\ HasClause(result.cmd, "--dbsnp", Flat(Resolved(ValueOf(result.kw, "dbsnp"))))
       /\ HasClause(cmd_dnascope_hp(None, StrV(<<"repeat_model">>), StrV(<<"hp">>),
                                    result.kw).cmd,
                    "--dbsnp", Flat(Resolved(ValueOf(result.kw, "dbsnp"))))

\* C10: cmd_model_apply returns the driver prefix without -i, then the
\* tokens --algo DNAModelApply --model <model> -v <inp_vcf> <out_vcf>, each a
\* token of its own.
ModelApplyTokens ==
    (/\ result.fn = "cmd_model_apply"
     /\ Holds(result.kw, "cores")
     /\ Holds(result.kw, "reference"))
    => /\ result.status = "ok"
       /\ Tokens(result.cmd) =
              Tokens(DriverPrefix(result.kw) \o ReadFilterClause(result.kw))
              \o <<"--algo", "DNAModelApply", "--model", Flat(Fmt(result.args[1])),
                   "-v", Flat(Fmt(result.args[2])), Flat(Fmt(result.args[3]))>>

\* the rows the region file must hold for an index: per index line, its
\* first column, 0 and its second column
RegionRows(index) ==
    [i \in 1..Len(index) |-> <<index[i][1], "\t", "0", "\t", index[i][3], "\n">>]

\* C5: when cmd_bedtools_subtract returns from a call with regions_bed None,
\* <tmp_base>_reference.bed exists, is closed and holds one row
\* "<name> TAB 0 TAB <length>" per row of <reference>.fai, in order; the
\* command names it as the -a operand; a second run on the same index
\* leaves the same bytes and returns the same command.
SynthesizedRegionFile ==
    (/\ result.fn = "cmd_bedtools_subtract"
     /\ result.args[1] = None
     /\ Holds(result.kw, "tmp_base")
     /\ Holds(result.kw, "reference")
     /\ result.status = "ok")
    => LET bed == Flat(ValueOf(result.kw, "tmp_base").s) \o "_reference.bed"
           fai == Flat(Resolved(ValueOf(result.kw, "reference"))) \o ".fai"
           again == cmd_bedtools_subtract(result.args[1], result.args[2], result.args[3],
                                          result.kw, fs)
       IN  /\ bed \in DOMAIN fs
           /\ fs[bed].writers = 0
           /\ fs[bed].data = RegionRows(fs[fai].data)
           /\ HasClause(result.cmd, "-a", bed)
           /\ again[2] = fs
           /\ again[1].ret.cmd = result.cmd

\* C5 witness: a call with no region file has returned and left a region
\* file of MaxRows rows
RegionFileWritten ==
    /\ result.fn = "cmd_bedtools_subtract"
    /\ result.args[1] = None
    /\ result.status = "ok"
    /\ "tmp/run_reference.bed" \in DOMAIN fs
    /\ Len(fs["tmp/run_reference.bed"].data) = MaxRows
    /\ Len(fs["ref.fasta.fai"].data) = MaxRows

\* C6: once two concurrent calls with regions_bed None have returned, the
\* file each call's command names holds the rows of that call's own
\* reference index.
NoRegionFileRace ==
    (/\ \A t \in Threads : /\ frames[t].pc = "done"
                            /\ frames[t].ret.status = "ok"
                            /\ frames[t].fname # <<>>
     /\ \A t, u \in Threads : ValueOf(frames[t].kw, "tmp_base")
                                  = ValueOf(frames[u].kw, "tmp_base"))
    => \A t \in Threads :
           LET fai == Flat(ValueOf(frames[t].kw, "reference").s) \o ".fai"
           IN  /\ HasClause(frames[t].ret.cmd, "-a", Flat(frames[t].fname))
               /\ fs[Flat(frames[t].fname)].data = RegionRows(fs[fai].data)

====
